---- MODULE Spec2Model ----
(***************************************************************************)
(* Model of the compatibility scoring engine of trustscore                 *)
(* (src/compatibility.py): split_majors, download_jar, execute_jcmp,       *)
(* compare_versions, check_update_type, compare_all and get_score.         *)
(*                                                                         *)
(* Python strings are sequences of one-character strings, so that          *)
(* str.split('.'), str.startswith and the `in` substring test are computed *)
(* as Python computes them.  Ratios are exact fractions <<num, den>>       *)
(* (den > 0); the quotients the code computes are quotients of small       *)
(* integers, for which equality of the exact fractions and equality of the *)
(* Python floats with 0 and 1 coincide.                                    *)
(***************************************************************************)
EXTENDS Integers, Sequences, FiniteSets, TLC

\* Longest version list passed to get_score.
MaxVersions == 3

(***************************************************************************)
(* Strings                                                                 *)
(***************************************************************************)
Dot == "."

\* Index of the first '.' in s, 0 when there is none.
RECURSIVE FindDot(_, _)
FindDot(s, k) ==
    IF k > Len(s) THEN 0
    ELSE IF s[k] = Dot THEN k
    ELSE FindDot(s, k + 1)

\* str.split('.'): always at least one component; "" splits to [""].
RECURSIVE Split(_)
Split(s) ==
    LET d == FindDot(s, 1)
    IN  IF d = 0 THEN << s >>
        ELSE << SubSeq(s, 1, d - 1) >> \o Split(SubSeq(s, d + 1, Len(s)))

\* str.startswith(p)
StartsWith(s, p) ==
    /\ Len(p) <= Len(s)
    /\ SubSeq(s, 1, Len(p)) = p

\* `sub in s` for strings
Contains(s, sub) ==
    \E k \in 0 .. (Len(s) - Len(sub)) : SubSeq(s, k + 1, k + Len(sub)) = sub

(***************************************************************************)
(* Inputs                                                                  *)
(***************************************************************************)
V_1_0_0  == << "1", ".", "0", ".", "0" >>
V_1_0_1  == << "1", ".", "0", ".", "1" >>
V_1_1_0  == << "1", ".", "1", ".", "0" >>
V_2_0_0  == << "2", ".", "0", ".", "0" >>
V_10_0_0 == << "1", "0", ".", "0", ".", "0" >>
V_1_2    == << "1", ".", "2" >>
V_Empty  == << >>

\* Version strings the lists are drawn from: well-formed ones with minor and
\* patch steps, a second major, a major that has another major as a string
\* prefix, a two-component version and the empty string.
VersionPool == { V_1_0_0, V_1_0_1, V_1_1_0, V_2_0_0, V_10_0_0, V_1_2, V_Empty }

A_lib    == << "l", "i", "b" >>
A_bom    == << "x", "b", "o", "m" >>
A_parent == << "p", "a", "r", "e", "n", "t" >>

ArtifactPool == { A_lib, A_bom, A_parent }

S_bom    == << "b", "o", "m" >>
S_parent == << "p", "a", "r", "e", "n", "t" >>

\* What urlretrieve can do: succeed, raise urllib.error.HTTPError, or raise
\* another urllib.error.URLError / OSError (no route, DNS failure, timeout).
FetchOutcomes == { "ok", "HTTPError", "URLError" }

VersionLists == UNION { [1 .. n -> VersionPool] : n \in 0 .. MaxVersions }

(***************************************************************************)
(* Exact fractions                                                         *)
(***************************************************************************)
Zero == << 0, 1 >>
Frac(n, d) == << n, d >>
RatAdd(a, b) == << a[1] * b[2] + b[1] * a[2], a[2] * b[2] >>
RatDivInt(a, n) == << a[1], a[2] * n >>
RatEq(a, b) == a[1] * b[2] = b[1] * a[2]

(***************************************************************************)
(* Pure functions of compatibility.py                                      *)
(***************************************************************************)
RECURSIVE split_majors_loop(_, _, _, _)
split_majors_loop(vs, k, majors_seen, split_versions) ==
    IF k > Len(vs) THEN split_versions
    ELSE LET version == vs[k]
             major == Split(version)[1]
             Matches(v) == StartsWith(v, major)
         IN  IF major \in majors_seen
             THEN split_majors_loop(vs, k + 1, majors_seen, split_versions)
             ELSE split_majors_loop(vs, k + 1, majors_seen \cup { major },
                                    Append(split_versions, SelectSeq(vs, Matches)))

split_majors(vs) == split_majors_loop(vs, 1, {}, << >>)

\* download_jar: "None", "jar" (a path), or "raise" when urlretrieve raises
\* something the except clause does not name.
download_jar(artifact, fetch) ==
    IF Contains(artifact, S_bom) \/ Contains(artifact, S_parent) THEN "None"
    ELSE IF fetch = "ok" THEN "jar"
    ELSE IF fetch = "HTTPError" THEN "None"
    ELSE "raise"

\* execute_jcmp: bang is `"!" in result.stdout`, returncode the exit status.
execute_jcmp(bang, returncode) ==
    IF bang \/ returncode # 0 THEN 0 ELSE 1

\* compare_versions: both downloads are attempted in order, then the test on
\* None, then the diff tool.  unresolved is `old_jar is None or new_jar is
\* None`, jcmp whether execute_jcmp was called; ret = -1 stands for "no value
\* returned" (an exception left the function).
compare_versions(artifact, fetch_old, fetch_new, bang, returncode) ==
    LET old_jar == download_jar(artifact, fetch_old)
        new_jar == IF old_jar = "raise" THEN "unset"
                   ELSE download_jar(artifact, fetch_new)
    IN  IF old_jar = "raise" \/ new_jar = "raise"
        THEN [ raised |-> TRUE, unresolved |-> TRUE, jcmp |-> FALSE, ret |-> -1 ]
        ELSE IF old_jar = "None" \/ new_jar = "None"
        THEN [ raised |-> FALSE, unresolved |-> TRUE, jcmp |-> FALSE, ret |-> 1 ]
        ELSE [ raised |-> FALSE, unresolved |-> FALSE, jcmp |-> TRUE,
               ret |-> execute_jcmp(bang, returncode) ]

\* What a call of compare_versions can come to, by artifact id: the outcomes
\* over everything the network and the diff tool can do.
CompareOutcomes ==
    [ artifact \in ArtifactPool |->
        { compare_versions(artifact, fetch_old, fetch_new, bang, returncode) :
            fetch_old \in FetchOutcomes, fetch_new \in FetchOutcomes,
            bang \in BOOLEAN, returncode \in { 0, 1 } } ]

\* check_update_type: "None" is Python's None, returned by falling off the end.
check_update_type(old_version, new_version) ==
    LET old == Split(old_version)
        new == Split(new_version)
    IN  IF Len(old) # Len(new) \/ Len(old) # 3 \/ Len(new) # 3 THEN "weird"
        ELSE IF old[2] # new[2] THEN "minor"
        ELSE IF old[3] # new[3] THEN "patch"
        ELSE "None"

\* check_update_type tabulated over the pairs of versions of the pool.
UpdateType ==
    [ old_version \in VersionPool, new_version \in VersionPool |->
        check_update_type(old_version, new_version) ]

\* The if / elif / else of compare_all that picks the counters to bump.
Bucket_NoElse(update_type) ==
    IF update_type \in { "minor", "patch", "weird" } THEN update_type ELSE "none"

Bucket(update_type) ==
    IF update_type = "minor" THEN "minor"
    ELSE IF update_type = "patch" THEN "patch"
    ELSE "weird"

\* `1 if cmp == 1 else 0`
ScoreInc_Always(cmp) == 1

ScoreInc(cmp) == IF cmp = 1 THEN 1 ELSE 0

\* The divisor of compare_all's total_score: len(versions) of ITS parameter,
\* which is the group get_score passes.
GroupDenominator_Pairs(group) == Len(group) - 1

GroupDenominator(group) == Len(group)

\* result["total_amounts"] of get_score.
TotalAmounts_Pairs(vs) == IF Len(vs) > 0 THEN Len(vs) - 1 ELSE 0

TotalAmounts(vs) == Len(vs)

RECURSIVE SumField(_, _)
SumField(rs, f) ==
    IF rs = << >> THEN 0 ELSE rs[1][f] + SumField(Tail(rs), f)

RECURSIVE SumRatio(_)
SumRatio(rs) ==
    IF rs = << >> THEN Zero ELSE RatAdd(rs[1].total_score, SumRatio(Tail(rs)))

ZeroTally == [ total_score |-> 0, minor_amounts |-> 0, minor_score |-> 0,
               patch_amounts |-> 0, patch_score |-> 0,
               weird_update |-> 0, weird_score |-> 0 ]

NoResult == [ total_amounts |-> -1, total_score |-> Zero,
              minor_amounts |-> -1, minor_score |-> Zero,
              patch_amounts |-> -1, patch_score |-> Zero,
              weird_amounts |-> -1, weird_score |-> Zero ]

\* The aggregation of get_score.
Aggregate(vs, group_results) ==
    LET minor_amounts == SumField(group_results, "minor_amounts")
        patch_amounts == SumField(group_results, "patch_amounts")
        weird_amounts == SumField(group_results, "weird_amounts")
    IN  [ total_amounts |-> TotalAmounts(vs),
          total_score   |-> IF Len(group_results) > 0
                            THEN RatDivInt(SumRatio(group_results), Len(group_results))
                            ELSE Zero,
          minor_amounts |-> minor_amounts,
          minor_score   |-> IF minor_amounts > 0
                            THEN Frac(SumField(group_results, "minor_score"), minor_amounts)
                            ELSE Zero,
          patch_amounts |-> patch_amounts,
          patch_score   |-> IF patch_amounts > 0
                            THEN Frac(SumField(group_results, "patch_score"), patch_amounts)
                            ELSE Zero,
          weird_amounts |-> weird_amounts,
          weird_score   |-> IF weird_amounts > 0
                            THEN Frac(SumField(group_results, "weird_score"), weird_amounts)
                            ELSE Zero ]

(***************************************************************************)
(* One call of get_score(group_id, artifact_id, versions)                  *)
(***************************************************************************)
VARIABLES
    versions,       \* the argument of get_score
    artifact_id,    \* the argument of get_score
    pc,             \* position in get_score / compare_all
    major_groups,   \* get_score's major_groups
    group_results,  \* get_score's group_results
    g,              \* index (1-based) of the group of the for loop of get_score
    i,              \* compare_all's loop variable
    tally,          \* compare_all's counters
    calls,          \* log of the calls of compare_versions
    result,         \* get_score's result
    exception       \* the exception that left get_score, if any

vars == << versions, artifact_id, pc, major_groups, group_results, g, i,
           tally, calls, result, exception >>

NoException == [ type |-> "none", in |-> "none" ]

Init ==
    /\ versions \in VersionLists
    /\ artifact_id \in ArtifactPool
    /\ pc = "start"
    /\ major_groups = << >>
    /\ group_results = << >>
    /\ g = 0
    /\ i = 0
    /\ tally = ZeroTally
    /\ calls = << >>
    /\ result = NoResult
    /\ exception = NoException

\* get_score, "Download jcmp": fetch the diff tool unless already on disk.
FetchJcmp ==
    /\ pc = "start"
    /\ \E present \in BOOLEAN, fetch \in FetchOutcomes :
         IF present \/ fetch = "ok"
         THEN /\ pc' = "split"
              /\ exception' = exception
         ELSE /\ pc' = "raised"
              /\ exception' = [ type |-> fetch, in |-> "get_score" ]
    /\ UNCHANGED << versions, artifact_id, major_groups, group_results, g, i,
                    tally, calls, result >>

\* get_score: major_groups = split_majors(versions); group_results = []
SplitMajors ==
    /\ pc = "split"
    /\ major_groups' = split_majors(versions)
    /\ group_results' = << >>
    /\ g' = 1
    /\ pc' = "groups"
    /\ UNCHANGED << versions, artifact_id, i, tally, calls, result, exception >>

\* The body of the loop of compare_all for the pair (older, newer) of group k,
\* c being what compare_versions comes to: the counters after it, and the
\* entry of the call log.
loop_body(t, k, older, newer, c) ==
    LET update_type == IF c.raised THEN "unset"
                       ELSE UpdateType[older, newer]
        bucket == Bucket(update_type)
        inc == ScoreInc(c.ret)
    IN  [ call  |-> [ g |-> k, older |-> older, newer |-> newer,
                      unresolved |-> c.unresolved, jcmp |-> c.jcmp,
                      raised |-> c.raised, ret |-> c.ret,
                      update_type |-> update_type ],
          tally |-> [ total_score   |-> t.total_score + inc,
                      minor_amounts |-> t.minor_amounts
                                        + (IF bucket = "minor" THEN 1 ELSE 0),
                      minor_score   |-> t.minor_score
                                        + (IF bucket = "minor" THEN inc ELSE 0),
                      patch_amounts |-> t.patch_amounts
                                        + (IF bucket = "patch" THEN 1 ELSE 0),
                      patch_score   |-> t.patch_score
                                        + (IF bucket = "patch" THEN inc ELSE 0),
                      weird_update  |-> t.weird_update
                                        + (IF bucket = "weird" THEN 1 ELSE 0),
                      weird_score   |-> t.weird_score
                                        + (IF bucket = "weird" THEN inc ELSE 0) ] ]

\* for group in major_groups: compare_all(...) is entered, counters zeroed.
EnterCompareAll ==
    /\ pc = "groups"
    /\ g <= Len(major_groups)
    /\ tally' = ZeroTally
    /\ i' = 0
    /\ pc' = "compare_all"
    /\ UNCHANGED << versions, artifact_id, major_groups, group_results, g,
                    calls, result, exception >>

\* One iteration of the loop of compare_all, compare_versions included.
CompareStep ==
    /\ pc = "compare_all"
    /\ i < Len(major_groups[g]) - 1
    /\ \E c \in CompareOutcomes[artifact_id] :
         LET it == loop_body(tally, g, major_groups[g][i + 1],
                             major_groups[g][i + 2], c)
         IN
         /\ calls' = Append(calls, it.call)
         /\ IF c.raised
            THEN /\ pc' = "raised"
                 /\ exception' = [ type |-> "URLError", in |-> "download_jar" ]
                 /\ UNCHANGED << tally, i >>
            ELSE /\ pc' = pc
                 /\ exception' = exception
                 /\ i' = i + 1
                 /\ tally' = it.tally
    /\ UNCHANGED << versions, artifact_id, major_groups, group_results, g, result >>

\* The end of compare_all: the result dictionary, appended by get_score.
ReturnCompareAll ==
    /\ pc = "compare_all"
    /\ i >= Len(major_groups[g]) - 1
    /\ LET den == GroupDenominator(major_groups[g])
       IN  IF den = 0
           THEN /\ pc' = "raised"
                /\ exception' = [ type |-> "ZeroDivisionError", in |-> "compare_all" ]
                /\ UNCHANGED << group_results, g >>
           ELSE /\ group_results' = Append(group_results,
                      [ total_score   |-> Frac(tally.total_score, den),
                        minor_score   |-> tally.minor_score,
                        minor_amounts |-> tally.minor_amounts,
                        patch_score   |-> tally.patch_score,
                        patch_amounts |-> tally.patch_amounts,
                        weird_score   |-> tally.weird_score,
                        weird_amounts |-> tally.weird_update ])
                /\ g' = g + 1
                /\ pc' = "groups"
                /\ exception' = exception
    /\ UNCHANGED << versions, artifact_id, major_groups, i, tally, calls, result >>

\* get_score, "Aggregate results", and the return.
AggregateResults ==
    /\ pc = "groups"
    /\ g > Len(major_groups)
    /\ result' = Aggregate(versions, group_results)
    /\ pc' = "done"
    /\ UNCHANGED << versions, artifact_id, major_groups, group_results, g, i,
                    tally, calls, exception >>

Next ==
    \/ FetchJcmp
    \/ SplitMajors
    \/ EnterCompareAll
    \/ CompareStep
    \/ ReturnCompareAll
    \/ AggregateResults

Spec == Init /\ [][Next]_vars


(***************************************************************************)
(* Vocabulary of the properties                                            *)
(***************************************************************************)
Range(s) == { s[k] : k \in DOMAIN s }

\* The major component: the substring before the first '.'.
Major(v) == Split(v)[1]

Returned == pc = "done"

Grouped == pc \in { "groups", "compare_all", "done" }

\* The majors of a list in order of first appearance.
RECURSIVE FirstSeenMajors(_, _)
FirstSeenMajors(vs, seen) ==
    IF vs = << >> THEN << >>
    ELSE IF Major(Head(vs)) \in seen THEN FirstSeenMajors(Tail(vs), seen)
    ELSE << Major(Head(vs)) >>
         \o FirstSeenMajors(Tail(vs), seen \cup { Major(Head(vs)) })

\* The versions of a list with major m, in their original order.
WithMajor(vs, m) ==
    LET Same(v) == Major(v) = m IN SelectSeq(vs, Same)

\* Number of adjacent pairs in the groups split_majors produced.
RECURSIVE PairCount(_)
PairCount(groups) ==
    IF groups = << >> THEN 0
    ELSE (Len(Head(groups)) - 1) + PairCount(Tail(groups))

\* Number of calls of compare_versions for group k that returned 1.
CompatibleIn(k) ==
    Cardinality({ n \in DOMAIN calls : calls[n].g = k /\ calls[n].ret = 1 })

WellFormed(v) == Len(Split(v)) = 3

(***************************************************************************)
(* C1                                                                      *)
(***************************************************************************)
\* C1: split_majors returns a partition of its input: every input version is
\* in exactly one group and the groups together hold exactly the input
\* versions.
C1_Partition ==
    Grouped =>
        /\ \A v \in Range(versions) :
             Cardinality({ k \in DOMAIN major_groups : v \in Range(major_groups[k]) }) = 1
        /\ UNION { Range(major_groups[k]) : k \in DOMAIN major_groups } = Range(versions)

(***************************************************************************)
(* C2                                                                      *)
(***************************************************************************)
\* C2 as stated: the record get_score returns has
\* minor_amounts + patch_amounts + weird_amounts = total_amounts.
C2_AmountsSumToTotal ==
    Returned =>
        result.minor_amounts + result.patch_amounts + result.weird_amounts
            = result.total_amounts

\* C2 amended: in the record get_score returns, minor_amounts + patch_amounts
\* + weird_amounts is the number of adjacent pairs in the groups split_majors
\* produced (every transition is counted under exactly one label), while
\* total_amounts is the length of the version list.
C2_AmountsSumToPairs ==
    Returned =>
        /\ result.minor_amounts + result.patch_amounts + result.weird_amounts
               = PairCount(major_groups)
        /\ result.total_amounts = Len(versions)

\* A returned record over a run that had a patch step and a pair of identical
\* versions.
C2_Witness ==
    /\ Returned
    /\ result.patch_amounts >= 1
    /\ \E n \in DOMAIN calls : calls[n].update_type = "None"

(***************************************************************************)
(* C3                                                                      *)
(***************************************************************************)
\* C3: every pair passed to compare_versions has the same major component on
\* both sides.
C3_NoCrossMajorComparison ==
    \A n \in DOMAIN calls : Major(calls[n].older) = Major(calls[n].newer)

(***************************************************************************)
(* C4                                                                      *)
(***************************************************************************)
\* C4 as stated: for a version list of length 0 or 1 every ratio and every
\* amount of the returned record is 0.
C4_ShortListAllZero ==
    (Returned /\ Len(versions) <= 1) =>
        /\ RatEq(result.total_score, Zero)
        /\ RatEq(result.minor_score, Zero)
        /\ RatEq(result.patch_score, Zero)
        /\ RatEq(result.weird_score, Zero)
        /\ result.total_amounts = 0
        /\ result.minor_amounts = 0
        /\ result.patch_amounts = 0
        /\ result.weird_amounts = 0

\* C4 amended: for a version list of length 0 or 1 every ratio of the
\* returned record is 0, minor_amounts, patch_amounts and weird_amounts are 0,
\* and total_amounts is the length of the list.
C4_ShortListZeroButTotal ==
    (Returned /\ Len(versions) <= 1) =>
        /\ RatEq(result.total_score, Zero)
        /\ RatEq(result.minor_score, Zero)
        /\ RatEq(result.patch_score, Zero)
        /\ RatEq(result.weird_score, Zero)
        /\ result.total_amounts = Len(versions)
        /\ result.minor_amounts = 0
        /\ result.patch_amounts = 0
        /\ result.weird_amounts = 0

\* get_score returned for a single-version list.
C4_Witness ==
    /\ Returned
    /\ Len(versions) = 1
    /\ Len(group_results) = 1

(***************************************************************************)
(* C5                                                                      *)
(***************************************************************************)
\* C5: when compare_versions returned compatible for every pair and there was
\* at least one transition, the returned total_score is 1.
C5_AllCompatibleScoresOne ==
    ( /\ Returned
      /\ Len(calls) >= 1
      /\ \A n \in DOMAIN calls : calls[n].ret = 1 )
        => RatEq(result.total_score, Frac(1, 1))

(***************************************************************************)
(* C6                                                                      *)
(***************************************************************************)
\* Steps get_score has left at most: every group has at most len(versions)
\* members and there are at most len(versions) groups.
Remaining ==
    LET N == Len(versions) + 2
    IN  CASE pc = "start"       -> Len(versions) * N + 3
          [] pc = "split"       -> Len(versions) * N + 2
          [] pc = "groups"      -> (Len(major_groups) - g + 1) * N + 1
          [] pc = "compare_all" -> (Len(major_groups) - g) * N + 2
                                   + (Len(major_groups[g]) - i)
          [] OTHER              -> 0

\* C6: whatever the version list, grouping, compare_all and the final
\* aggregation never divide by zero or raise, and get_score runs to
\* completion: until it has returned its record (or a fetch has raised) it
\* always has a next step, and every step brings it closer to the end.
C6_RunsToCompletion ==
    /\ [](/\ exception.type # "ZeroDivisionError"
          /\ exception.in \in { "none", "get_score", "download_jar" }
          /\ (pc = "raised") = (exception.in # "none")
          /\ pc \notin { "done", "raised" } => ENABLED Next)
    /\ [][Remaining' < Remaining /\ Remaining' >= 0]_vars

\* get_score returned for a list with the empty string and a duplicate.
C6_Witness ==
    /\ Returned
    /\ V_Empty \in Range(versions)
    /\ \E a, b \in DOMAIN versions : a # b /\ versions[a] = versions[b]
    /\ \E k \in DOMAIN major_groups : Len(major_groups[k]) = 1

(***************************************************************************)
(* C7                                                                      *)
(***************************************************************************)
\* C7: check_update_type returns one of minor, patch, weird for every pair,
\* never no value, and weird whenever a version does not have 3 components.
C7_ClassificationTotal ==
    \A n \in DOMAIN calls :
        ~calls[n].raised =>
            /\ calls[n].update_type \in { "minor", "patch", "weird" }
            /\ (~WellFormed(calls[n].older) \/ ~WellFormed(calls[n].newer))
                   => calls[n].update_type = "weird"

(***************************************************************************)
(* C8                                                                      *)
(***************************************************************************)
\* C8 as stated: a group's total_score is its number of compatible
\* transitions divided by the length of the ungrouped version list.
C8_GroupRatioOverWholeList ==
    \A k \in DOMAIN group_results :
        RatEq(group_results[k].total_score, Frac(CompatibleIn(k), Len(versions)))

\* C8 amended: a group's total_score is its number of compatible transitions
\* divided by the length of that group, the list compare_all was called with.
C8_GroupRatioOverGroup ==
    \A k \in DOMAIN group_results :
        RatEq(group_results[k].total_score,
              Frac(CompatibleIn(k), Len(major_groups[k])))

\* get_score returned with two groups, one of them shorter than the version
\* list and with a compatible transition.
C8_Witness ==
    /\ Returned
    /\ Len(group_results) >= 2
    /\ \E k \in DOMAIN group_results :
         /\ CompatibleIn(k) >= 1
         /\ Len(major_groups[k]) < Len(versions)

(***************************************************************************)
(* C9                                                                      *)
(***************************************************************************)
\* C9: split_majors emits one group per distinct major, in order of first
\* appearance, each holding the input versions with that major in their
\* original order.
C9_GroupsByFirstSeenMajor ==
    Grouped =>
        LET majors == FirstSeenMajors(versions, {})
        IN  /\ Len(major_groups) = Len(majors)
            /\ \A k \in DOMAIN major_groups :
                 major_groups[k] = WithMajor(versions, majors[k])

(***************************************************************************)
(* C10                                                                     *)
(***************************************************************************)
\* C10: when an artifact of a pair cannot be resolved, compare_versions
\* returns 1 without running the diff tool, and no fetch failure leaves
\* compare_versions.
C10_UnresolvedAssumedCompatible ==
    /\ \A n \in DOMAIN calls :
         calls[n].unresolved => (calls[n].ret = 1 /\ ~calls[n].jcmp)
    /\ \A n \in DOMAIN calls : ~calls[n].raised
    /\ exception.in # "download_jar"

====
